---- MODULE Spec2Model ----
(***************************************************************************)
(* Model of ingestion_server/elasticsearch_models.py: the Image document   *)
(* normalizer (database_row_to_elasticsearch_doc) and its static helpers.  *)
(*                                                                         *)
(* Python values are tagged records, so that values of different Python    *)
(* types can be told apart:                                                *)
(*   None  [t |-> "null"]          int/float  [t |-> "num", n |-> 5]       *)
(*   nan   [t |-> "nan"]           +-inf      [t |-> "inf", sign |-> 1]    *)
(*   bool  [t |-> "bool", b |-> TRUE]                                      *)
(*   str   [t |-> "str", s |-> <<"a", "b">>]   (a sequence of characters)  *)
(*   list  [t |-> "list", l |-> <<...>>]                                   *)
(*   dict  [t |-> "map", m |-> f]  (f a function from its keys to values)  *)
(* The outcome of a call is Ok(value) or Raise(exception name).            *)
(***************************************************************************)
EXTENDS Integers, Sequences, FiniteSets, TLC

VARIABLES op, args, result

vars == <<op, args, result>>

-----------------------------------------------------------------------------
(* Python values *)

Null == [t |-> "null"]
Num(n) == [t |-> "num", n |-> n]
NaN == [t |-> "nan"]
Inf(sign) == [t |-> "inf", sign |-> sign]
Bool(b) == [t |-> "bool", b |-> b]
Str(s) == [t |-> "str", s |-> s]
List(l) == [t |-> "list", l |-> l]
Map(m) == [t |-> "map", m |-> m]

Ok(v) == [k |-> "ok", v |-> v]
Raise(e) == [k |-> "raise", e |-> e]

IsFloat(v) == v.t \in {"num", "nan", "inf"}

\* Python truthiness (bool(v))
Truthy(v) ==
    CASE v.t = "null" -> FALSE
      [] v.t = "num" -> v.n /= 0
      [] v.t = "bool" -> v.b
      [] v.t = "str" -> Len(v.s) > 0
      [] v.t = "list" -> Len(v.l) > 0
      [] v.t = "map" -> DOMAIN v.m /= {}
      [] OTHER -> TRUE

\* a < b on Python floats: every comparison with nan is False
PyLt(a, b) ==
    CASE a.t = "nan" \/ b.t = "nan" -> FALSE
      [] a.t = "num" /\ b.t = "num" -> a.n < b.n
      [] a.t = "num" /\ b.t = "inf" -> b.sign > 0
      [] a.t = "inf" /\ b.t = "num" -> a.sign < 0
      [] OTHER -> a.sign < b.sign

\* min(a, b): the first argument unless the second is smaller
PyMin(a, b) == IF PyLt(b, a) THEN b ELSE a

\* max(a, b): the first argument unless the second is greater
PyMax(a, b) == IF PyLt(a, b) THEN b ELSE a

-----------------------------------------------------------------------------
(* Module-level helper *)

NoCeilingConstrain(value, low, high) ==
    IF IsFloat(value) THEN Ok(PyMax(low, value)) ELSE Raise("TypeError")

\* _constrain_between(value, low, high); comparing None or a str with a
\* number raises TypeError
_constrain_between(value, low, high) ==
    IF IsFloat(value)
    THEN LET ceiling == PyMin(value, high)
             floor == PyMax(low, ceiling)
         IN  Ok(floor)
    ELSE Raise("TypeError")

-----------------------------------------------------------------------------
(* Image.get_extension *)

\* str.lower() on the characters the model uses
LowerChar(c) ==
    CASE c = "A" -> "a"
      [] c = "B" -> "b"
      [] c = "J" -> "j"
      [] c = "Y" -> "y"
      [] OTHER -> c

Lower(s) == [i \in 1..Len(s) |-> LowerChar(s[i])]

Contains(s, c) == \E i \in 1..Len(s) : s[i] = c

\* url.split('.')[-1]: the part after the last '.', the whole string if
\* there is none
LastDotPart(s) ==
    IF Contains(s, ".")
    THEN LET last == CHOOSE i \in 1..Len(s) :
                        /\ s[i] = "."
                        /\ \A j \in (i + 1)..Len(s) : s[j] /= "."
         IN  SubSeq(s, last + 1, Len(s))
    ELSE s

get_extension(url) ==
    IF url.t /= "str"
    THEN Raise("AttributeError")
    ELSE LET extension == Lower(LastDotPart(url.s))
         IN  IF Contains(extension, "/")
             THEN Ok(Null)
             ELSE Ok(Str(extension))

-----------------------------------------------------------------------------
(* Image.get_aspect_ratio, Image.get_size *)

\* Image.ImageSizes in definition order: name and maximum threshold
SMALL == 640 * 480
MEDIUM == 1600 * 900
ImageSizes ==
    << [name |-> <<"s", "m", "a", "l", "l">>, value |-> Num(SMALL)],
       [name |-> <<"m", "e", "d", "i", "u", "m">>, value |-> Num(MEDIUM)],
       [name |-> <<"l", "a", "r", "g", "e">>, value |-> Inf(1)] >>

AspectRatioSwapped(height, width) ==
    IF height.t = "null" \/ width.t = "null"
    THEN Ok(Null)
    ELSE IF height.n > width.n THEN Ok(Str(<<"w", "i", "d", "e">>))
    ELSE IF height.n < width.n THEN Ok(Str(<<"t", "a", "l", "l">>))
    ELSE Ok(Str(<<"s", "q", "u", "a", "r", "e">>))

get_aspect_ratio(height, width) ==
    IF height.t = "null" \/ width.t = "null"
    THEN Ok(Null)
    ELSE IF height.n > width.n THEN Ok(Str(<<"t", "a", "l", "l">>))
    ELSE IF height.n < width.n THEN Ok(Str(<<"w", "i", "d", "e">>))
    ELSE Ok(Str(<<"s", "q", "u", "a", "r", "e">>))

SizeInclusiveBands(height, width) ==
    IF height.t = "null" \/ width.t = "null"
    THEN Ok(Null)
    ELSE LET resolution == Num(height.n * width.n)
             hits == {i \in 1..Len(ImageSizes) :
                         ~PyLt(ImageSizes[i].value, resolution)}
         IN  IF hits = {}
             THEN Ok(Null)
             ELSE Ok(Str(ImageSizes[CHOOSE i \in hits :
                                       \A j \in hits : i <= j].name))

\* the first band, in definition order, whose threshold exceeds the
\* resolution; None when the loop ends without returning
get_size(height, width) ==
    IF height.t = "null" \/ width.t = "null"
    THEN Ok(Null)
    ELSE LET resolution == Num(height.n * width.n)
             hits == {i \in 1..Len(ImageSizes) :
                         PyLt(resolution, ImageSizes[i].value)}
         IN  IF hits = {}
             THEN Ok(Null)
             ELSE Ok(Str(ImageSizes[CHOOSE i \in hits :
                                       \A j \in hits : i <= j].name))

-----------------------------------------------------------------------------
(* Metadata access: `key in meta_data` and `meta_data[key]` *)

\* the characters of a metadata key
KeyChars(key) ==
    CASE key = "description" ->
            <<"d", "e", "s", "c", "r", "i", "p", "t", "i", "o", "n">>
      [] key = "license_url" ->
            <<"l", "i", "c", "e", "n", "s", "e", "_", "u", "r", "l">>
      [] key = "mature" -> <<"m", "a", "t", "u", "r", "e">>
      [] key = "authority_boost" ->
            <<"a", "u", "t", "h", "o", "r", "i", "t", "y", "_",
              "b", "o", "o", "s", "t">>
      [] key = "authority_penalty" ->
            <<"a", "u", "t", "h", "o", "r", "i", "t", "y", "_",
              "p", "e", "n", "a", "l", "t", "y">>
      [] key = "name" -> <<"n", "a", "m", "e">>
      [] key = "accuracy" -> <<"a", "c", "c", "u", "r", "a", "c", "y">>
      [] OTHER -> <<"o", "t", "h", "e", "r">>

IsSubstring(k, s) ==
    \E i \in 0..(Len(s) - Len(k)) : SubSeq(s, i + 1, i + Len(k)) = k

\* key in v: dict membership, substring test on a str, element test on a
\* list, TypeError on None, numbers and booleans
PyIn(key, v) ==
    CASE v.t = "map" -> Ok(key \in DOMAIN v.m)
      [] v.t = "str" -> Ok(IsSubstring(KeyChars(key), v.s))
      [] v.t = "list" -> Ok(\E i \in 1..Len(v.l) : v.l[i] = Str(KeyChars(key)))
      [] OTHER -> Raise("TypeError")

\* v[key] for a str key that `in` found: only a dict can be subscripted by it
Subscript(v, key) ==
    IF v.t = "map" THEN Ok(v.m[key]) ELSE Raise("TypeError")

\* `meta_data and key in meta_data`
MetaHas(meta_data, key) ==
    IF Truthy(meta_data) THEN PyIn(key, meta_data) ELSE Ok(FALSE)

-----------------------------------------------------------------------------
(* Image.parse_description *)

DescriptionLimit == 2000

Min(a, b) == IF a < b THEN a ELSE b

\* v[:n]
SlicePrefix(v, n) ==
    CASE v.t = "str" -> Ok(Str(SubSeq(v.s, 1, Min(n, Len(v.s)))))
      [] v.t = "list" -> Ok(List(SubSeq(v.l, 1, Min(n, Len(v.l)))))
      [] OTHER -> Raise("TypeError")

DescriptionUntruncated(metadata_field) ==
    LET has == PyIn("description", metadata_field)
    IN  IF has.k = "raise" THEN Ok(Null)
        ELSE IF ~has.v THEN Ok(Null)
        ELSE LET value == Subscript(metadata_field, "description")
             IN  IF value.k = "raise" THEN Ok(Null)
                 ELSE IF value.v.t \in {"str", "list"} THEN value
                 ELSE Ok(Null)

\* every TypeError inside the try block is turned into None; falling off
\* the end of the function returns None as well
parse_description(metadata_field) ==
    LET has == PyIn("description", metadata_field)
    IN  IF has.k = "raise" THEN Ok(Null)
        ELSE IF ~has.v THEN Ok(Null)
        ELSE LET value == Subscript(metadata_field, "description")
             IN  IF value.k = "raise" THEN Ok(Null)
                 ELSE LET sliced == SlicePrefix(value.v, DescriptionLimit)
                      IN  IF sliced.k = "raise" THEN Ok(Null) ELSE sliced

-----------------------------------------------------------------------------
(* Image.get_license_url, Image.get_maturity *)

get_license_url(meta_data) ==
    LET has == MetaHas(meta_data, "license_url")
    IN  IF has.k = "raise" THEN has
        ELSE IF has.v THEN Subscript(meta_data, "license_url")
        ELSE Ok(Null)

MaturityMetadataWins(meta_data, api_maturity_flag) ==
    LET has == MetaHas(meta_data, "mature")
    IN  IF has.k = "raise" THEN has
        ELSE IF has.v THEN Subscript(meta_data, "mature")
        ELSE IF Truthy(api_maturity_flag) THEN Ok(Bool(TRUE))
        ELSE Ok(Bool(FALSE))

get_maturity(meta_data, api_maturity_flag) ==
    LET has == MetaHas(meta_data, "mature")
    IN  IF has.k = "raise" THEN has
        ELSE LET fromMeta == IF has.v THEN Subscript(meta_data, "mature")
                             ELSE Ok(Bool(FALSE))
             IN  IF fromMeta.k = "raise" THEN fromMeta
                 ELSE IF Truthy(api_maturity_flag) THEN Ok(Bool(TRUE))
                 ELSE fromMeta

-----------------------------------------------------------------------------
(* float(value) *)

Digits == <<"0", "1", "2", "3", "4", "5", "6", "7", "8", "9">>

IsDigit(c) == \E d \in 1..Len(Digits) : Digits[d] = c

DigitVal(c) == (CHOOSE d \in 1..Len(Digits) : Digits[d] = c) - 1

RECURSIVE IntOf(_)
IntOf(s) ==
    IF s = <<>> THEN 0
    ELSE 10 * IntOf(SubSeq(s, 1, Len(s) - 1)) + DigitVal(s[Len(s)])

\* an unsigned literal: decimal digits, "inf" or "nan" (strings with a
\* fraction, an exponent, blanks or underscores are not among the inputs)
ParseUnsigned(s) ==
    IF s /= <<>> /\ \A i \in 1..Len(s) : IsDigit(s[i]) THEN Ok(Num(IntOf(s)))
    ELSE IF s = <<"i", "n", "f">> THEN Ok(Inf(1))
    ELSE IF s = <<"n", "a", "n">> THEN Ok(NaN)
    ELSE Raise("ValueError")

Negate(v) ==
    CASE v.t = "num" -> Num(0 - v.n)
      [] v.t = "inf" -> Inf(0 - v.sign)
      [] OTHER -> v

ParseFloat(s) ==
    IF s /= <<>> /\ s[1] = "-"
    THEN LET body == ParseUnsigned(Tail(s))
         IN  IF body.k = "raise" THEN body ELSE Ok(Negate(body.v))
    ELSE ParseUnsigned(s)

\* float(v): numbers as they are, True/False as 1/0, a str parsed
\* (ValueError when it is no number), TypeError for anything else
PyFloat(v) ==
    CASE IsFloat(v) -> Ok(v)
      [] v.t = "bool" -> Ok(Num(IF v.b THEN 1 ELSE 0))
      [] v.t = "str" -> ParseFloat(v.s)
      [] OTHER -> Raise("TypeError")

-----------------------------------------------------------------------------
(* Image.get_authority_boost, Image.get_authority_penalty *)

\* the metadata branch shared by both: subscript, float() and clamp inside
\* try/except (ValueError, TypeError): pass, which leaves the initial None
AuthorityFromMetadata(meta_data, key) ==
    LET raw == Subscript(meta_data, key)
    IN  IF raw.k = "raise" THEN Ok(Null)
        ELSE LET parsed == PyFloat(raw.v)
             IN  IF parsed.k = "raise" THEN Ok(Null)
                 ELSE _constrain_between(parsed.v, Num(0), Num(100))

BoostLookupOnParseFailure(meta_data, source, lookup) ==
    LET has == MetaHas(meta_data, "authority_boost")
    IN  IF has.k = "raise" THEN has
        ELSE IF has.v
        THEN LET fromMeta == AuthorityFromMetadata(meta_data, "authority_boost")
             IN  IF fromMeta.v = Null THEN Ok(lookup[source]) ELSE fromMeta
        ELSE Ok(lookup[source])

\* lookup stands for ingestion_server.authority.get_authority_boost
get_authority_boost(meta_data, source, lookup) ==
    LET has == MetaHas(meta_data, "authority_boost")
    IN  IF has.k = "raise" THEN has
        ELSE IF has.v
        THEN AuthorityFromMetadata(meta_data, "authority_boost")
        ELSE Ok(lookup[source])

\* lookup stands for ingestion_server.authority.get_authority_penalty
get_authority_penalty(meta_data, source, lookup) ==
    LET has == MetaHas(meta_data, "authority_penalty")
    IN  IF has.k = "raise" THEN has
        ELSE IF has.v
        THEN AuthorityFromMetadata(meta_data, "authority_penalty")
        ELSE Ok(lookup[source])

-----------------------------------------------------------------------------
(* Image.parse_detailed_tags *)

RECURSIVE ParseTagList(_)
ParseTagList(tags) ==
    IF tags = <<>> THEN <<>>
    ELSE LET tag == Head(tags)
             parsed_tag ==
                 IF "accuracy" \in DOMAIN tag.m
                 THEN Map([key \in {"name", "accuracy"} |-> tag.m[key]])
                 ELSE Map([key \in {"name"} |-> tag.m[key]])
         IN  IF "name" \in DOMAIN tag.m
             THEN <<parsed_tag>> \o ParseTagList(Tail(tags))
             ELSE ParseTagList(Tail(tags))

TagsEmptyListKept(json_tags) ==
    IF json_tags.t = "list" THEN Ok(List(ParseTagList(json_tags.l)))
    ELSE Ok(Null)

\* json_tags is None or a list of dicts
parse_detailed_tags(json_tags) ==
    IF Truthy(json_tags)
    THEN Ok(List(ParseTagList(json_tags.l)))
    ELSE Ok(Null)

-----------------------------------------------------------------------------
(* Image.database_row_to_elasticsearch_doc *)

\* the columns the normalizer reads; a row is a tuple and a schema maps a
\* column name to its position in the row
Columns ==
    << "id", "title", "identifier", "creator", "creator_url", "tags",
       "created_on", "url", "thumbnail", "provider", "source", "license",
       "license_version", "foreign_landing_url", "meta_data", "height",
       "width", "mature", "normalized_popularity" >>

ColumnNames == {Columns[i] : i \in 1..Len(Columns)}

RowGetOrNone(row, schema, name) ==
    IF name \in DOMAIN schema THEN Ok(row[schema[name]]) ELSE Ok(Null)

\* row[schema[name]]
RowGet(row, schema, name) ==
    IF name \in DOMAIN schema THEN Ok(row[schema[name]]) ELSE Raise("KeyError")

\* f applied to the value of an earlier step, or that step's exception
Then1(a, f(_)) == IF a.k = "raise" THEN a ELSE f(a.v)

\* f applied to the values of two earlier steps, or the first exception
Then2(a, b, f(_, _)) ==
    IF a.k = "raise" THEN a ELSE IF b.k = "raise" THEN b ELSE f(a.v, b.v)

\* value.lower()
PyLower(v) == IF v.t = "str" THEN Ok(Str(Lower(v.s))) ELSE Raise("AttributeError")

\* stands for ingestion_server.categorize.get_categories, a function of
\* its two arguments
get_categories(extension, source) ==
    [t |-> "categories", extension |-> extension, source |-> source]

\* the first exception in evaluation order, if any
FirstRaise(steps) ==
    LET raised == {i \in 1..Len(steps) : steps[i].k = "raise"}
    IN  IF raised = {} THEN Ok(Null)
        ELSE steps[CHOOSE i \in raised : \A j \in raised : i <= j]

database_row_to_elasticsearch_doc(row, schema, boostLookup, penaltyLookup) ==
    LET Get(name) == RowGet(row, schema, name)
        provider == Get("provider")
        source == Get("source")
        url == Get("url")
        extension == Then1(url, get_extension)
        height == Get("height")
        width == Get("width")
        meta == Get("meta_data")
        \* try: ... except KeyError: popularity = None
        rawPopularity == Get("normalized_popularity")
        popularity ==
            IF rawPopularity.k = "raise" THEN Ok(Null)
            ELSE _constrain_between(rawPopularity.v, Num(0), Num(100))
        id == Get("id")
        title == Get("title")
        identifier == Get("identifier")
        creator == Get("creator")
        creator_url == Get("creator_url")
        tags == Then1(Get("tags"), parse_detailed_tags)
        created_on == Get("created_on")
        thumbnail == Get("thumbnail")
        license == Then1(Get("license"), PyLower)
        license_version == Get("license_version")
        foreign_landing_url == Get("foreign_landing_url")
        description == Then1(meta, parse_description)
        aspect_ratio == Then2(height, width, get_aspect_ratio)
        size == Then2(height, width, get_size)
        license_url == Then1(meta, get_license_url)
        apiMature == Get("mature")
        mature == Then2(meta, apiMature, get_maturity)
        authority_boost ==
            Then2(meta, source,
                  LAMBDA m, s : get_authority_boost(m, s, boostLookup))
        authority_penalty ==
            Then2(meta, source,
                  LAMBDA m, s : get_authority_penalty(m, s, penaltyLookup))
        failure ==
            FirstRaise(<< provider, source, url, extension, height, width,
                          meta, popularity, id, title, identifier, creator,
                          creator_url, tags, created_on, thumbnail, license,
                          license_version, foreign_landing_url, description,
                          aspect_ratio, size, license_url, apiMature,
                          mature,
                          authority_boost, authority_penalty >>)
    IN  IF failure.k = "raise" THEN failure
        ELSE Ok([ t |-> "Image",
                  id |-> id.v,
                  title |-> title.v,
                  identifier |-> identifier.v,
                  creator |-> creator.v,
                  creator_url |-> creator_url.v,
                  tags |-> tags.v,
                  created_on |-> created_on.v,
                  url |-> url.v,
                  thumbnail |-> thumbnail.v,
                  provider |-> provider.v,
                  source |-> source.v,
                  license |-> license.v,
                  license_version |-> license_version.v,
                  foreign_landing_url |-> foreign_landing_url.v,
                  description |-> description.v,
                  extension |-> extension.v,
                  categories |-> get_categories(extension.v, source.v),
                  aspect_ratio |-> aspect_ratio.v,
                  size |-> size.v,
                  license_url |-> license_url.v,
                  mature |-> mature.v,
                  normalized_popularity |-> popularity.v,
                  authority_boost |-> authority_boost.v,
                  authority_penalty |-> authority_penalty.v ])

-----------------------------------------------------------------------------
(* Inputs *)

MaxUrlLen == 4
MaxDelta == 1
MaxOver == 1
MaxMetaKeys == 2
MaxTags == 2

UrlChars == {"a", "J", ".", "/"}
Urls == UNION {[1..n -> UrlChars] : n \in 1..MaxUrlLen}

Deltas == (0 - MaxDelta)..MaxDelta
Dims == {Null} \cup {Num(n) : n \in {0, 1}}
        \cup {Num(b + d) : b \in {480, 640, 900, 1600}, d \in Deltas}

\* a text of n characters whose characters depend on their position
Text(n) == Str([i \in 1..n |-> <<"a", "b", "c">>[(i % 3) + 1]])

DescriptionValues ==
    {Text(n) : n \in {0, 1, DescriptionLimit - 1, DescriptionLimit, 2500}}
    \cup {Text(DescriptionLimit + d) : d \in 1..MaxOver}
    \cup {Null, Num(5), List(<<Num(1), Num(2)>>)}

AuthorityValues ==
    { Null, Num(-5), Num(50), Num(150), Bool(TRUE),
      Str(<<"1", "5", "0">>), Str(<<"-", "5">>), Str(<<"n", "a", "n">>),
      Str(<<"-", "i", "n", "f">>),
      Str(<<"n", "o", "t", "-", "a", "-", "n", "u", "m", "b", "e", "r">>) }

MetaKeys ==
    {"description", "license_url", "mature", "authority_boost",
     "authority_penalty"}

ValuesFor(key) ==
    CASE key = "description" -> DescriptionValues
      [] key = "license_url" -> {Str(<<"u">>), Null}
      [] key = "mature" -> {Bool(TRUE), Bool(FALSE), Null}
      [] OTHER -> AuthorityValues

\* metadata that is a mapping
MetaMaps ==
    UNION { {Map(m) : m \in {f \in [K -> UNION {ValuesFor(key) : key \in K}] :
                               \A key \in K : f[key] \in ValuesFor(key)}} :
            K \in {S \in SUBSET MetaKeys : Cardinality(S) <= MaxMetaKeys} }

\* metadata that is not a mapping
NonMappings ==
    { Num(0), Num(5), Bool(FALSE), Bool(TRUE), Str(<<>>), Str(<<"x">>),
      List(<<>>), List(<<Num(1)>>) }
    \cup {Str(KeyChars(key)) : key \in MetaKeys}
    \cup {List(<<Str(KeyChars(key))>>) : key \in MetaKeys}

Metas == {Null} \cup MetaMaps \cup NonMappings

Sources == {Str(<<"f", "l", "i", "c", "k", "r">>), Str(<<"m", "e", "t">>)}

\* what the authority lookups may return for a source
LookupValues == {Null, Num(-5), Num(85)}
Lookups == [Sources -> LookupValues]

Flags == {Bool(TRUE), Bool(FALSE), Null}

TagKeys == {"name", "accuracy", "other"}
TagValuesFor(key) ==
    CASE key = "name" -> {Str(<<"c", "a", "t">>), Str(<<"d", "o", "g">>)}
      [] key = "accuracy" -> {Num(9), Num(5)}
      [] OTHER -> {Str(<<"x">>)}

RawTags ==
    UNION { {Map(m) : m \in {f \in [K -> UNION {TagValuesFor(key) : key \in K}] :
                               \A key \in K : f[key] \in TagValuesFor(key)}} :
            K \in SUBSET TagKeys }

TagLists == {Null} \cup {List(l) : l \in UNION {[1..n -> RawTags] : n \in 0..MaxTags}}

\* rows, schemas and pairs of lookups (boost, penalty) for the whole
\* normalizer
Position(name) == CHOOSE i \in 1..Len(Columns) : Columns[i] = name

\* a schema that maps every column but the missing ones
SchemaWithout(missing) == [name \in ColumnNames \ missing |-> Position(name)]

Schemas == {SchemaWithout({})} \cup {SchemaWithout({name}) : name \in ColumnNames}

RowUrls == {Str(<<"a", ".", "J">>)}
RowDims == {<<Null, Num(640)>>, <<Num(480), Num(640)>>}
RowMetas ==
    { Null,
      Map([key \in {"authority_boost"} |-> Num(150)]),
      Map([key \in {"authority_boost"} |->
              Str(<<"n", "o", "t", "-", "a", "-", "n", "u", "m", "b", "e", "r">>)]),
      Map([key \in {"authority_penalty", "description"} |->
              IF key = "description" THEN Text(DescriptionLimit + 1) ELSE Num(-5)]),
      Map([key \in {"mature", "license_url"} |->
              IF key = "mature" THEN Bool(TRUE) ELSE Str(<<"u">>)]),
      Num(5),
      Str(<<"x">>),
      Str(KeyChars("authority_boost")) }
RowPopularities == {Null, Num(-5), Num(50), Num(150), NaN}
RowLicenses == {Str(<<"B", "Y">>), Null}
RowTags ==
    { Null,
      List(<< Map([key \in {"name", "accuracy"} |->
                      IF key = "name" THEN Str(<<"c", "a", "t">>) ELSE Num(9)]),
              Map([key \in {"accuracy"} |-> Num(5)]) >>) }
RowLookups ==
    { Tables : Tables \in {
      << [source \in Sources |-> IF source = Str(<<"m", "e", "t">>)
                              THEN Num(150) ELSE Num(85)],
         [source \in Sources |-> IF source = Str(<<"m", "e", "t">>)
                              THEN Num(-5) ELSE Null] >>,
      << [source \in Sources |-> IF source = Str(<<"m", "e", "t">>)
                              THEN Null ELSE Num(-5)],
         [source \in Sources |-> IF source = Str(<<"m", "e", "t">>)
                              THEN Num(20) ELSE Num(150)] >> } }

\* the row tuple holding the given value in each column
RowOf(url, dims, meta, popularity, license, tags, mature, source) ==
    [i \in 1..Len(Columns) |->
        CASE Columns[i] = "id" -> Num(7)
          [] Columns[i] = "url" -> url
          [] Columns[i] = "height" -> dims[1]
          [] Columns[i] = "width" -> dims[2]
          [] Columns[i] = "meta_data" -> meta
          [] Columns[i] = "normalized_popularity" -> popularity
          [] Columns[i] = "license" -> license
          [] Columns[i] = "tags" -> tags
          [] Columns[i] = "mature" -> mature
          [] Columns[i] = "source" -> source
          [] Columns[i] = "license_version" -> Null
          [] OTHER -> Str(<<"x">>)]

Rows ==
    { RowOf(url, dims, meta, popularity, license, tags, mature, source) :
        url \in RowUrls, dims \in RowDims, meta \in RowMetas,
        popularity \in RowPopularities, license \in RowLicenses,
        tags \in RowTags, mature \in {Bool(TRUE), Bool(FALSE)},
        source \in Sources }

-----------------------------------------------------------------------------
(* Calls: the normalizer keeps no state, so a behaviour is a series of     *)
(* independent calls, each from the idle state                             *)

Idle == op = "none"

Init ==
    /\ op = "none"
    /\ args = [none |-> TRUE]
    /\ result = Ok(Null)

Return ==
    /\ ~Idle
    /\ op' = "none"
    /\ args' = [none |-> TRUE]
    /\ result' = Ok(Null)

GetExtension ==
    /\ Idle
    /\ \E url \in Urls :
        /\ op' = "get_extension"
        /\ args' = [url |-> Str(url)]
        /\ result' = get_extension(Str(url))

GetAspectRatio ==
    /\ Idle
    /\ \E height \in Dims, width \in Dims :
        /\ op' = "get_aspect_ratio"
        /\ args' = [height |-> height, width |-> width]
        /\ result' = get_aspect_ratio(height, width)

GetSize ==
    /\ Idle
    /\ \E height \in Dims, width \in Dims :
        /\ op' = "get_size"
        /\ args' = [height |-> height, width |-> width]
        /\ result' = get_size(height, width)

ParseDescription ==
    /\ Idle
    /\ \E meta \in Metas :
        /\ op' = "parse_description"
        /\ args' = [meta |-> meta]
        /\ result' = parse_description(meta)

GetLicenseUrl ==
    /\ Idle
    /\ \E meta \in Metas :
        /\ op' = "get_license_url"
        /\ args' = [meta |-> meta]
        /\ result' = get_license_url(meta)

GetMaturity ==
    /\ Idle
    /\ \E meta \in Metas, flag \in Flags :
        /\ op' = "get_maturity"
        /\ args' = [meta |-> meta, flag |-> flag]
        /\ result' = get_maturity(meta, flag)

GetAuthorityBoost ==
    /\ Idle
    /\ \E meta \in Metas, source \in Sources, lookup \in Lookups :
        /\ op' = "get_authority_boost"
        /\ args' = [meta |-> meta, source |-> source, lookup |-> lookup]
        /\ result' = get_authority_boost(meta, source, lookup)

GetAuthorityPenalty ==
    /\ Idle
    /\ \E meta \in Metas, source \in Sources, lookup \in Lookups :
        /\ op' = "get_authority_penalty"
        /\ args' = [meta |-> meta, source |-> source, lookup |-> lookup]
        /\ result' = get_authority_penalty(meta, source, lookup)

ParseDetailedTags ==
    /\ Idle
    /\ \E tags \in TagLists :
        /\ op' = "parse_detailed_tags"
        /\ args' = [tags |-> tags]
        /\ result' = parse_detailed_tags(tags)

DatabaseRowToElasticsearchDoc ==
    /\ Idle
    /\ \E row \in Rows, schema \in Schemas, lookups \in RowLookups :
        /\ op' = "database_row_to_elasticsearch_doc"
        /\ args' = [row |-> row, schema |-> schema,
                    boostLookup |-> lookups[1],
                    penaltyLookup |-> lookups[2]]
        /\ result' = database_row_to_elasticsearch_doc(
                          row, schema, lookups[1], lookups[2])

Next ==
    \/ GetExtension
    \/ GetAspectRatio
    \/ GetSize
    \/ ParseDescription
    \/ GetLicenseUrl
    \/ GetMaturity
    \/ GetAuthorityBoost
    \/ GetAuthorityPenalty
    \/ ParseDetailedTags
    \/ DatabaseRowToElasticsearchDoc
    \/ Return

Spec == Init /\ [][Next]_vars

-----------------------------------------------------------------------------
(* Properties *)

IsMapping(v) == v.t = "map"

HasKey(meta, key) == IsMapping(meta) /\ key \in DOMAIN meta.m

\* null or a number within [0, 100]
NullOrInRange(v) == v = Null \/ (v.t = "num" /\ 0 <= v.n /\ v.n <= 100)

AuthorityOps == {"get_authority_boost", "get_authority_penalty"}

AuthorityKey(name) ==
    IF name = "get_authority_boost" THEN "authority_boost" ELSE "authority_penalty"

\* the value under the key is no number: float() raises on it
Unparsable(meta, key) == HasKey(meta, key) /\ PyFloat(meta.m[key]).k = "raise"

NotANumber == Str(<<"n", "o", "t", "-", "a", "-", "n", "u", "m", "b", "e", "r">>)

\* C1 as stated: for get_authority_boost and get_authority_penalty, with the
\* metadata null or a mapping, the result is the lookup's value for the
\* source both when the key is absent and when its value cannot be parsed
\* as a number.
C1_LookupOnAbsentOrUnparsable ==
    (op \in AuthorityOps /\ (args.meta = Null \/ IsMapping(args.meta))) =>
        ((~HasKey(args.meta, AuthorityKey(op))
             \/ Unparsable(args.meta, AuthorityKey(op)))
            => result = Ok(args.lookup[args.source]))

\* C1 amended: for get_authority_boost and get_authority_penalty, with the
\* metadata null or a mapping, the result is the lookup's value for the
\* source when the key is absent, and null when the key is present but its
\* value cannot be parsed as a number.
C1_LookupOnlyWhenAbsent ==
    (op \in AuthorityOps /\ (args.meta = Null \/ IsMapping(args.meta))) =>
        /\ ~HasKey(args.meta, AuthorityKey(op))
              => result = Ok(args.lookup[args.source])
        /\ Unparsable(args.meta, AuthorityKey(op)) => result = Ok(Null)

C1_Witness ==
    /\ op = "get_authority_boost"
    /\ HasKey(args.meta, "authority_boost")
    /\ args.meta.m["authority_boost"] = NotANumber
    /\ args.lookup[args.source] = Num(85)
    /\ result = Ok(Null)

DocOp == "database_row_to_elasticsearch_doc"

\* the value the row holds in a column
Cell(name) == args.row[Position(name)]

\* C2 as stated: in every document produced, normalized_popularity,
\* authority_boost and authority_penalty are each null or a number in
\* [0, 100], whatever the lookups return.
C2_ScoresAlwaysInRange ==
    (op = DocOp /\ result.k = "ok") =>
        /\ NullOrInRange(result.v.normalized_popularity)
        /\ NullOrInRange(result.v.authority_boost)
        /\ NullOrInRange(result.v.authority_penalty)

\* `meta_data and key in meta_data` holds: a mapping with the key, or a str
\* or list containing it
Carries(meta, key) ==
    /\ meta.t \in {"map", "str", "list"}
    /\ Truthy(meta)
    /\ PyIn(key, meta) = Ok(TRUE)

\* C2 amended: in every document produced, normalized_popularity is null or
\* in [0, 100]; authority_boost and authority_penalty are null or in
\* [0, 100] when the metadata carries their key, and otherwise are the
\* lookup's value for the source, unchanged; the same holds of what
\* get_authority_boost and get_authority_penalty return on their own.
C2_ScoresInRangeOrLookup ==
    /\ (op \in AuthorityOps /\ result.k = "ok") =>
          IF Carries(args.meta, AuthorityKey(op))
          THEN NullOrInRange(result.v)
          ELSE result.v = args.lookup[args.source]
    /\ (op = DocOp /\ result.k = "ok") =>
        /\ NullOrInRange(result.v.normalized_popularity)
        /\ IF Carries(Cell("meta_data"), "authority_boost")
           THEN NullOrInRange(result.v.authority_boost)
           ELSE result.v.authority_boost = args.boostLookup[Cell("source")]
        /\ IF Carries(Cell("meta_data"), "authority_penalty")
           THEN NullOrInRange(result.v.authority_penalty)
           ELSE result.v.authority_penalty = args.penaltyLookup[Cell("source")]

C2_Witness ==
    /\ op = DocOp
    /\ result.k = "ok"
    /\ Cell("normalized_popularity") = Num(150)
    /\ result.v.normalized_popularity = Num(100)
    /\ HasKey(Cell("meta_data"), "authority_boost")
    /\ Cell("meta_data").m["authority_boost"] = Num(150)
    /\ result.v.authority_boost = Num(100)
    /\ result.v.authority_penalty = Num(-5)

MetaOps ==
    {"parse_description", "get_license_url", "get_maturity"} \cup AuthorityOps

\* what each metadata rule gives when no metadata is available
NoMetadataResult ==
    CASE op = "get_maturity" -> Ok(Bool(args.flag = Bool(TRUE)))
      [] op \in AuthorityOps -> Ok(args.lookup[args.source])
      [] OTHER -> Ok(Null)

\* C3: for metadata that is null or not a mapping, every metadata rule
\* returns what it returns without metadata and raises nothing.
C3_NonMappingMetadataIgnored ==
    (op \in MetaOps /\ ~IsMapping(args.meta)) => result = NoMetadataResult

WellTypedRow ==
    /\ Cell("url").t = "str"
    /\ Cell("license").t = "str"
    /\ IsFloat(Cell("normalized_popularity"))
    /\ Cell("meta_data") = Null \/ IsMapping(Cell("meta_data"))

RequiredColumns == {"id", "url", "source", "license"}

\* C4 as stated: on a well-typed row the normalizer fails exactly when id,
\* url, source or license is absent from the schema, and an absent
\* normalized_popularity gives normalized_popularity = null.
C4_FailsIffRequiredColumnAbsent ==
    (op = DocOp /\ WellTypedRow) =>
        /\ result.k = "raise" <=> ~(RequiredColumns \subseteq DOMAIN args.schema)
        /\ "normalized_popularity" \notin DOMAIN args.schema
              => (result.k = "ok" /\ result.v.normalized_popularity = Null)

\* C4 amended: on a well-typed row the normalizer fails (with KeyError)
\* exactly when some column it reads other than normalized_popularity is
\* absent from the schema, and an absent normalized_popularity gives
\* normalized_popularity = null.
C4_FailsIffReadColumnAbsent ==
    (op = DocOp /\ WellTypedRow) =>
        /\ result.k = "raise" <=>
              ~((ColumnNames \ {"normalized_popularity"}) \subseteq DOMAIN args.schema)
        /\ result.k = "raise" => result.e = "KeyError"
        /\ "normalized_popularity" \notin DOMAIN args.schema
              => (result.k = "ok" /\ result.v.normalized_popularity = Null)

C4_Witness ==
    /\ op = DocOp
    /\ WellTypedRow
    /\ DOMAIN args.schema = ColumnNames \ {"title"}
    /\ result = Raise("KeyError")

C4_WitnessPopularityAbsent ==
    /\ op = DocOp
    /\ WellTypedRow
    /\ DOMAIN args.schema = ColumnNames \ {"normalized_popularity"}
    /\ result.k = "ok"
    /\ result.v.normalized_popularity = Null

\* C5: get_extension returns null when the url has no '.' or the part after
\* its last '.' contains '/', and otherwise that part, lower-cased.
C5_ExtensionRule ==
    op = "get_extension" =>
        LET url == args.url.s
            dots == {i \in 1..Len(url) : url[i] = "."}
            last == CHOOSE i \in dots : \A j \in dots : j <= i
            after == SubSeq(url, last + 1, Len(url))
        IN  IF dots = {} THEN result = Ok(Null)
            ELSE IF \E i \in 1..Len(after) : after[i] = "/" THEN result = Ok(Null)
            ELSE result = Ok(Str([i \in 1..Len(after) |-> LowerChar(after[i])]))

SizeName(n) ==
    IF n < 307200 THEN Str(<<"s", "m", "a", "l", "l">>)
    ELSE IF n < 1440000 THEN Str(<<"m", "e", "d", "i", "u", "m">>)
    ELSE Str(<<"l", "a", "r", "g", "e">>)

SizeRank(v) ==
    CASE v = Str(<<"s", "m", "a", "l", "l">>) -> 1
      [] v = Str(<<"m", "e", "d", "i", "u", "m">>) -> 2
      [] v = Str(<<"l", "a", "r", "g", "e">>) -> 3
      [] OTHER -> 0

NumDims == Dims \ {Null}

\* C6: for non-null height and width, get_size is 'small' below 307200,
\* 'medium' from 307200 and below 1440000, 'large' from 1440000, and no
\* larger resolution gets a smaller size.
C6_SizeBands ==
    (op = "get_size" /\ args.height /= Null /\ args.width /= Null) =>
        /\ result = Ok(SizeName(args.height.n * args.width.n))
        /\ \A h \in NumDims, w \in NumDims :
              h.n * w.n >= args.height.n * args.width.n
                 => SizeRank(get_size(h, w).v) >= SizeRank(result.v)

C6_Witness ==
    /\ op = "get_size"
    /\ args.height = Num(480)
    /\ args.width = Num(640)
    /\ result = Ok(Str(<<"m", "e", "d", "i", "u", "m">>))

\* C7: get_aspect_ratio and get_size return null exactly when height or
\* width is null; otherwise get_aspect_ratio is 'tall', 'wide' or 'square'
\* as height is greater than, less than or equal to width, and get_size is
\* one of 'small', 'medium', 'large'.
C7_NullIffDimensionMissing ==
    (op \in {"get_aspect_ratio", "get_size"}) =>
        /\ result.k = "ok"
        /\ result.v = Null <=> (args.height = Null \/ args.width = Null)
        /\ (op = "get_aspect_ratio" /\ result.v /= Null) =>
              result.v = IF args.height.n > args.width.n
                         THEN Str(<<"t", "a", "l", "l">>)
                         ELSE IF args.height.n < args.width.n
                         THEN Str(<<"w", "i", "d", "e">>)
                         ELSE Str(<<"s", "q", "u", "a", "r", "e">>)
        /\ (op = "get_size" /\ result.v /= Null) => SizeRank(result.v) \in 1..3

C7_Witness ==
    /\ op = "get_aspect_ratio"
    /\ args.height = Num(480)
    /\ args.width = Num(640)
    /\ result = Ok(Str(<<"w", "i", "d", "e">>))

C9_TagsKeepNamedOnly ==
    op = "parse_detailed_tags" =>
        IF args.tags = Null \/ args.tags.l = <<>> THEN result = Ok(Null)
        ELSE LET in == args.tags.l
                 named == {i \in 1..Len(in) : "name" \in DOMAIN in[i].m}
                 nth(j) == CHOOSE i \in named :
                              Cardinality({k \in named : k <= i}) = j
             IN  /\ result.k = "ok"
                 /\ result.v.t = "list"
                 /\ Len(result.v.l) = Cardinality(named)
                 /\ \A j \in 1..Len(result.v.l) :
                       LET out == result.v.l[j].m
                           raw == in[nth(j)].m
                       IN  /\ DOMAIN out = DOMAIN raw \cap {"name", "accuracy"}
                           /\ \A key \in DOMAIN out : out[key] = raw[key]

C9_Witness ==
    /\ op = "parse_detailed_tags"
    /\ args.tags.t = "list"
    /\ Len(args.tags.l) = 2
    /\ DOMAIN args.tags.l[1].m = {"name", "accuracy", "other"}
    /\ DOMAIN args.tags.l[2].m = {"accuracy"}
    /\ result.k = "ok"
    /\ result.v.t = "list"
    /\ Len(result.v.l) = 1
    /\ DOMAIN result.v.l[1].m = {"name", "accuracy"}

\* C10: parse_description returns the first 2000 characters of the
\* metadata's description when the metadata is a mapping with that key and
\* a value that can be sliced, and null in every other case; it raises
\* nothing.
C10_DescriptionTruncated ==
    op = "parse_description" =>
        IF HasKey(args.meta, "description")
              /\ args.meta.m["description"].t = "str"
        THEN LET text == args.meta.m["description"].s
             IN  /\ result.k = "ok"
                 /\ result.v.t = "str"
                 /\ Len(result.v.s) = IF Len(text) < 2000 THEN Len(text) ELSE 2000
                 /\ \A i \in 1..Len(result.v.s) : result.v.s[i] = text[i]
        ELSE IF HasKey(args.meta, "description")
              /\ args.meta.m["description"].t = "list"
        THEN result = Ok(args.meta.m["description"])
        ELSE result = Ok(Null)

C10_Witness ==
    /\ op = "parse_description"
    /\ HasKey(args.meta, "description")
    /\ args.meta.m["description"] = Text(2500)
    /\ result = Ok(Text(2000))

====
